---- MODULE Spec2Model ----
(***************************************************************************)
(* Model of symjit-bridge: the instruction translator (src/src/lib.rs) and *)
(* the compiled runner family (src/src/runners.rs).                        *)
(*                                                                         *)
(* f64 values are modelled as small integers; a Complex<f64> is a pair     *)
(* <<re, im>>; a vector of LaneWidth lanes is a tuple of LaneWidth values. *)
(***************************************************************************)
EXTENDS Integers, Sequences, FiniteSets, TLC

\* ------------------------------------------------------------------ bounds
MaxConst == 2        \* longest constant pool explored
MaxInstr == 2        \* longest instruction stream explored
MaxCount == 2        \* largest count_params / count_obs of an artifact
MaxArgs  == 3        \* longest args buffer (in elements)
MaxOuts  == 2        \* longest outs buffer (in elements)
MaxSlots == 2        \* longest slot list mapped on its own
MaxIndex == 2        \* largest slot index explored

\* lanes of the vector element type (wide::f64x2)
LaneWidth == 2

NoValue == "NoValue"

BoolToNat(b) == IF b THEN 1 ELSE 0

RECURSIVE SumSeq(_)
SumSeq(s) == IF s = <<>> THEN 0 ELSE Head(s) + SumSeq(Tail(s))

SeqsUpTo(S, n) == UNION { [1..k -> S] : k \in 0..n }

\* ------------------------------------------------------------------ Config
\* symjit::Config, restricted to the three options the bridge reads or sets.
Configs == [complex : BOOLEAN, simd : BOOLEAN, use_threads : BOOLEAN]

set_complex(c, b) == [c EXCEPT !.complex = b]
set_simd(c, b)    == [c EXCEPT !.simd = b]
use_threads(c)    == c.use_threads

\* ------------------------------------------------------------------- slots
\* symbolica Slot: <<tag, id>>.  compiler::Slot: [class, index].
SlotTags == {"Param", "Out", "Const", "Temp"}

\* a mapping that files Out slots under Temp
slot_outAsTemp(s) ==
    CASE s[1] = "Param" -> [class |-> "Param", index |-> s[2]]
      [] s[1] = "Out"   -> [class |-> "Temp",  index |-> s[2]]
      [] s[1] = "Const" -> [class |-> "Const", index |-> s[2]]
      [] s[1] = "Temp"  -> [class |-> "Temp",  index |-> s[2]]

slot(s) ==
    CASE s[1] = "Param" -> [class |-> "Param", index |-> s[2]]
      [] s[1] = "Out"   -> [class |-> "Out",   index |-> s[2]]
      [] s[1] = "Const" -> [class |-> "Const", index |-> s[2]]
      [] s[1] = "Temp"  -> [class |-> "Temp",  index |-> s[2]]

slot_list(v) == [i \in 1..Len(v) |-> slot(v[i])]

\* BuiltinSymbol(s.get_symbol().get_id())
builtin_symbol(s) == [builtin |-> s.id]

\* ------------------------------------------------------------ instructions
\* One sample instruction per opcode of symbolica's Instruction.
IAdd    == [op |-> "Add", lhs |-> <<"Temp", 0>>,
            args |-> << <<"Param", 0>>, <<"Const", 0>> >>, num_reals |-> 1]
IMul    == [op |-> "Mul", lhs |-> <<"Temp", 1>>,
            args |-> << <<"Param", 1>>, <<"Temp", 0>> >>, num_reals |-> 2]
IPow    == [op |-> "Pow", lhs |-> <<"Temp", 0>>, arg |-> <<"Param", 1>>,
            p |-> 3, is_real |-> TRUE]
IPowf   == [op |-> "Powf", lhs |-> <<"Temp", 1>>, arg |-> <<"Param", 0>>,
            p |-> <<"Const", 1>>, is_real |-> FALSE]
IAssign == [op |-> "Assign", lhs |-> <<"Out", 0>>, rhs |-> <<"Temp", 1>>]
IFun    == [op |-> "Fun", lhs |-> <<"Temp", 0>>, fun |-> [id |-> 7],
            arg |-> <<"Param", 0>>, is_real |-> TRUE]
IJoin   == [op |-> "Join", lhs |-> <<"Out", 1>>, cond |-> <<"Temp", 0>>,
            true_val |-> <<"Param", 0>>, false_val |-> <<"Const", 0>>]
ILabel  == [op |-> "Label", id |-> 1]
IIfElse == [op |-> "IfElse", cond |-> <<"Temp", 0>>, id |-> 1]
IGoto   == [op |-> "Goto", id |-> 1]
IExternalFun == [op |-> "ExternalFun", lhs |-> <<"Out", 0>>, name |-> "sinh",
                 args |-> << <<"Temp", 0>> >>]

Instructions == {IAdd, IMul, IPow, IPowf, IAssign, IFun, IJoin, ILabel,
                 IIfElse, IGoto, IExternalFun}

\* Complex<f64> constants
ComplexVals == { <<1, 0>>, <<2, 3>> }

\* ------------------------------------------------------------- Number trait
\* impl Number for f64 / for Complex<f64>
as_complex(coeff, x) == IF coeff = "real" THEN <<x, 0>> ELSE x

\* --------------------------------------------------------------- Translator
\* symjit::Translator as the bridge sees it: the config it was created with,
\* the append calls made on it, and the calls it accepted.  failAt is the
\* position of the append call the builder rejects (0: none is rejected).
TranslatorNew(config) == [config |-> config, calls |-> <<>>, items |-> <<>>,
                          ok |-> TRUE]

BuilderAppend(t, c, failAt) ==
    IF Len(t.calls) + 1 = failAt
    THEN [t EXCEPT !.calls = Append(@, c), !.ok = FALSE]
    ELSE [t EXCEPT !.calls = Append(@, c), !.items = Append(@, c)]

\* the match of translate: the one builder call made for instruction q
InstructionCall(q) ==
    CASE q.op = "Add" ->
           [call |-> "append_add", lhs |-> slot(q.lhs),
            args |-> slot_list(q.args), num_reals |-> q.num_reals]
      [] q.op = "Mul" ->
           [call |-> "append_mul", lhs |-> slot(q.lhs),
            args |-> slot_list(q.args), num_reals |-> q.num_reals]
      [] q.op = "Pow" ->
           [call |-> "append_pow", lhs |-> slot(q.lhs), arg |-> slot(q.arg),
            p |-> q.p, is_real |-> q.is_real]
      [] q.op = "Powf" ->
           [call |-> "append_powf", lhs |-> slot(q.lhs), arg |-> slot(q.arg),
            p |-> slot(q.p), is_real |-> q.is_real]
      [] q.op = "Assign" ->
           [call |-> "append_assign", lhs |-> slot(q.lhs), rhs |-> slot(q.rhs)]
      [] q.op = "Fun" ->
           [call |-> "append_fun", lhs |-> slot(q.lhs),
            fun |-> builtin_symbol(q.fun), arg |-> slot(q.arg),
            is_real |-> q.is_real]
      [] q.op = "Join" ->
           [call |-> "append_join", lhs |-> slot(q.lhs), cond |-> slot(q.cond),
            true_val |-> slot(q.true_val), false_val |-> slot(q.false_val)]
      [] q.op = "Label"  -> [call |-> "append_label", id |-> q.id]
      [] q.op = "IfElse" ->
           [call |-> "append_if_else", cond |-> slot(q.cond), id |-> q.id]
      [] q.op = "Goto"   -> [call |-> "append_goto", id |-> q.id]
      [] q.op = "ExternalFun" ->
           [call |-> "append_external_fun", lhs |-> slot(q.lhs),
            name |-> q.name, args |-> slot_list(q.args)]

ConstantCall(z) == [call |-> "append_constant", z |-> z]

\* for z in constants { translator.append_constant(z)?; }
\* (a failed append returns from translate: nothing is appended after it)
RECURSIVE AppendConstants(_, _, _)
AppendConstants(t, cs, failAt) ==
    IF ~t.ok \/ cs = <<>> THEN t
    ELSE AppendConstants(BuilderAppend(t, ConstantCall(Head(cs)), failAt),
                         Tail(cs), failAt)

\* the instruction loop with the result of each append ignored
RECURSIVE AppendInstructions_ignoresError(_, _, _)
AppendInstructions_ignoresError(t, qs, failAt) ==
    IF qs = <<>> THEN t
    ELSE AppendInstructions_ignoresError(
             BuilderAppend(t, InstructionCall(Head(qs)), failAt),
             Tail(qs), failAt)

\* for q in instructions { match q { ... }? }
RECURSIVE AppendInstructions(_, _, _)
AppendInstructions(t, qs, failAt) ==
    IF ~t.ok \/ qs = <<>> THEN t
    ELSE AppendInstructions(BuilderAppend(t, InstructionCall(Head(qs)), failAt),
                            Tail(qs), failAt)

\* Ok(translator) or Err; calls is the trace of builder calls made
TranslateResult(t) ==
    [ok |-> t.ok, translator |-> IF t.ok THEN t ELSE NoValue, calls |-> t.calls]

\* the two loops of translate in the wrong order
translate_instructionsFirst(instrs, consts, config, failAt) ==
    TranslateResult(
        AppendConstants(
            AppendInstructions(TranslatorNew(config), instrs, failAt),
            consts, failAt))

translate(instrs, consts, config, failAt) ==
    TranslateResult(
        AppendInstructions(
            AppendConstants(TranslatorNew(config), consts, failAt),
            instrs, failAt))


\* --------------------------------------------------------- compiled artifact
\* symjit's Translator::compile on a fully populated builder: the artifact
\* owns the config it was produced with and its buffer-layout metadata.
TranslatorCompile(t, cp, co) ==
    [config |-> t.config, count_params |-> cp, count_obs |-> co]

\* An ExpressionEvaluator<T>: coeff is "real" (T = f64) or "complex"
\* (T = Complex<f64>); export_instructions gives the stream and the pool.
MkEvaluator(coeff, instrs, consts) ==
    [coeff |-> coeff, instructions |-> instrs, constants |-> consts]

\* translate(..).unwrap() and translator.compile(): outcome "ok" (Ok(app)),
\* "err" (Err) or "panic" (unwrap on Err)
UnwrapAndCompile(r, config, codegenOk, cp, co) ==
    IF ~r.ok
    THEN [outcome |-> "panic", app |-> NoValue, calls |-> r.calls,
          passed |-> config]
    ELSE IF codegenOk
    THEN [outcome |-> "ok", app |-> TranslatorCompile(r.translator, cp, co),
          calls |-> r.calls, passed |-> config]
    ELSE [outcome |-> "err", app |-> NoValue, calls |-> r.calls,
          passed |-> config]

\* lib.rs compile
compile(ev, config, failAt, codegenOk, cp, co) ==
    UnwrapAndCompile(
        translate(ev.instructions,
                  [k \in 1..Len(ev.constants) |->
                      as_complex(ev.coeff, ev.constants[k])],
                  config, failAt),
        config, codegenOk, cp, co)

\* ------------------------------------------------------------ runner family
Kinds == {"Real", "Complex", "SimdReal", "SimdComplex"}

CoeffOf(kind) == IF kind \in {"Real", "SimdReal"} THEN "real" ELSE "complex"

\* the set_complex / set_simd calls at the head of each runner's compile
CompiledRealRunner_force(config) ==
    set_simd(set_complex(config, FALSE), FALSE)
CompiledComplexRunner_force(config) ==
    set_simd(set_complex(config, TRUE), FALSE)
CompiledSimdRealRunner_force(config) ==
    set_simd(set_complex(config, FALSE), TRUE)
\* the vector complex runner forgetting its simd flag
CompiledSimdComplexRunner_force_noSimd(config) ==
    set_simd(set_complex(config, TRUE), FALSE)

CompiledSimdComplexRunner_force(config) ==
    set_simd(set_complex(config, TRUE), TRUE)

ForceConfig(kind, config) ==
    CASE kind = "Real"        -> CompiledRealRunner_force(config)
      [] kind = "Complex"     -> CompiledComplexRunner_force(config)
      [] kind = "SimdReal"    -> CompiledSimdRealRunner_force(config)
      [] kind = "SimdComplex" -> CompiledSimdComplexRunner_force(config)

Uninit == [state |-> "Uninitialized", config |-> NoValue, app |-> NoValue]

\* let app = compile(&ev, config)?; Ok(Self { config, app })
WrapRunner(r, config) ==
    [outcome |-> r.outcome, calls |-> r.calls, passed |-> r.passed,
     runner |-> CASE r.outcome = "ok" ->
                       [state |-> "Compiled", config |-> config, app |-> r.app]
                  [] r.outcome = "err" ->
                       [state |-> "Failed", config |-> NoValue, app |-> NoValue]
                  [] r.outcome = "panic" ->
                       [state |-> "Aborted", config |-> NoValue,
                        app |-> NoValue]]

CompileForced(ev, config, failAt, codegenOk, cp, co) ==
    WrapRunner(compile(ev, config, failAt, codegenOk, cp, co), config)

\* the runner keeping the caller's config instead of the one it compiled with
RunnerCompile_keepsCallerConfig(kind, ev, config0, failAt, codegenOk, cp, co) ==
    WrapRunner(compile(ev, ForceConfig(kind, config0), failAt, codegenOk, cp, co),
               config0)

\* Runner::compile: the runner built (or not) and what the call did
RunnerCompile(kind, ev, config0, failAt, codegenOk, cp, co) ==
    CompileForced(ev, ForceConfig(kind, config0), failAt, codegenOk, cp, co)


\* ------------------------------------------------------------------ buffers
\* size_of::<T>() / size_of::<f64>() for the element type of each runner
ElemWidth(kind) ==
    CASE kind = "Real"        -> 1
      [] kind = "Complex"     -> 2
      [] kind = "SimdReal"    -> LaneWidth
      [] kind = "SimdComplex" -> 2 * LaneWidth

\* a flat view laid out unit by unit instead of element by element
flatten_vec_planar(v, w) ==
    [j \in 1..(Len(v) * w) |->
        v[((j - 1) % Len(v)) + 1][((j - 1) \div Len(v)) + 1]]

\* flatten_vec: the same memory viewed as n * size_of<T> / size_of<f64> f64s
flatten_vec(v, w) ==
    [j \in 1..(Len(v) * w) |-> v[((j - 1) \div w) + 1][((j - 1) % w) + 1]]

\* flatten_vec_mut hands out an aliasing view: what was written through the
\* flat view q is what the typed buffer holds afterwards
flatten_vec_mut_writeback(q, w) ==
    [i \in 1..(Len(q) \div w) |-> [u \in 1..w |-> q[(i - 1) * w + u]]]

\* ---------------------------------------------------- batch primitives
\* The artifact's compiled function: output k of a row from that row's
\* parameters alone.
Kernel(row, k) == SumSeq(row) + k + 1

NumWorkers == 2      \* size of the worker pool of the threaded primitive

At(buf, j) == IF j \in 1..Len(buf) THEN buf[j] ELSE 0

\* outs after the rows in `rows` are evaluated; L is the unit width (1 for
\* the scalar primitives, LaneWidth for the _simd primitives)
EvaluateRows(app, args, outs, rows, L) ==
    LET cp == app.count_params
        co == app.count_obs
    IN  IF co = 0 THEN outs
        ELSE [j \in 1..Len(outs) |->
                LET u == (j - 1) \div L
                    l == (j - 1) % L
                    i == u \div co
                    k == u % co
                IN  IF i \in rows
                    THEN Kernel([p \in 1..cp |->
                                   At(args, (i * cp + (p - 1)) * L + l + 1)], k)
                    ELSE outs[j]]

\* rows are processed sequentially in index order
evaluate_matrix_without_threads(app, args, outs, n, L) ==
    EvaluateRows(app, args, outs, 0..(n - 1), L)

\* contiguous chunks, one per worker
ChunkSize(n) == IF n = 0 THEN 1 ELSE (n + NumWorkers - 1) \div NumWorkers

\* chunks of floor(n / workers) rows: the remainder rows belong to no worker
Chunk_dropsRemainder(n, w) ==
    { i \in 0..(n - 1) : i \div ChunkSize(n) = w /\ i < NumWorkers * (n \div NumWorkers) }

Chunk(n, w) == { i \in 0..(n - 1) : i \div ChunkSize(n) = w }

RECURSIVE RunChunks(_, _, _, _, _, _)
RunChunks(app, args, outs, n, L, w) ==
    IF w = NumWorkers THEN outs
    ELSE RunChunks(app, args, EvaluateRows(app, args, outs, Chunk(n, w), L),
                   n, L, w + 1)

\* fork-join over the chunks (here: the workers finishing in pool order)
evaluate_matrix_with_threads(app, args, outs, n, L) ==
    RunChunks(app, args, outs, n, L, 0)

\* ----------------------------------------------------------------- evaluate
\* 1 for the real runners, 2 for the complex runners (2 * args.len())
RowMultiplier(kind) == IF kind \in {"Real", "SimdReal"} THEN 1 ELSE 2

\* let n = (m * args.len()) / self.app.count_params
RowCount(kind, argsLen, cp) == (RowMultiplier(kind) * argsLen) \div cp

\* the assertion comparing the buffer length, not the rows it holds
CapacityCheck_lengthOnly(kind, outsLen, co, n) ==
    RowMultiplier(kind) * outsLen >= n

\* assert!(m * outs.len() / self.app.count_obs >= n)
CapacityCheck(kind, outsLen, co, n) ==
    (RowMultiplier(kind) * outsLen) \div co >= n

\* if self.config.use_threads() { ..without_threads.. } else { ..with_threads.. }
Dispatch(kind, config) ==
    IF use_threads(config)
    THEN IF kind \in {"Real", "Complex"}
         THEN "evaluate_matrix_without_threads"
         ELSE "evaluate_matrix_without_threads_simd"
    ELSE IF kind \in {"Real", "Complex"}
         THEN "evaluate_matrix_with_threads"
         ELSE "evaluate_matrix_with_threads_simd"

Threaded(prim) ==
    prim \in {"evaluate_matrix_with_threads", "evaluate_matrix_with_threads_simd"}

UnitWidth(prim) ==
    IF prim \in {"evaluate_matrix_without_threads_simd",
                 "evaluate_matrix_with_threads_simd"}
    THEN LaneWidth ELSE 1

RunPrimitive(prim, app, args, outs, n) ==
    IF Threaded(prim)
    THEN evaluate_matrix_with_threads(app, args, outs, n, UnitWidth(prim))
    ELSE evaluate_matrix_without_threads(app, args, outs, n, UnitWidth(prim))

\* the call panicked before any primitive ran: the buffers are untouched
Stopped(why, args, outs) ==
    [outcome |-> "panic", panic |-> why, invoked |-> "none", n |-> 0,
     args |-> args, outs |-> outs]

\* let args = flatten_vec(args); let outs = flatten_vec_mut(outs);
\* (the real scalar runner passes its buffers as they are)
FlatView(kind, buf) ==
    IF kind = "Real" THEN buf ELSE flatten_vec(buf, ElemWidth(kind))

TypedView(kind, flat) ==
    IF kind = "Real" THEN flat
    ELSE flatten_vec_mut_writeback(flat, ElemWidth(kind))

\* the if/else on self.config.use_threads() and the primitive's effect
DispatchAndRun(kind, runner, args, outs, n) ==
    [outcome |-> "ok", panic |-> "none",
     invoked |-> Dispatch(kind, runner.config), n |-> n, args |-> args,
     outs |-> TypedView(kind,
                 RunPrimitive(Dispatch(kind, runner.config), runner.app,
                              FlatView(kind, args), FlatView(kind, outs), n))]

CheckAndRun(kind, runner, args, outs, n) ==
    IF runner.app.count_obs = 0 THEN Stopped("div_by_zero", args, outs)
    ELSE IF ~CapacityCheck(kind, Len(outs), runner.app.count_obs, n)
    THEN Stopped("assertion", args, outs)
    ELSE DispatchAndRun(kind, runner, args, outs, n)

\* Runner::evaluate(args, outs): what the call did and the buffers after it
RunnerEvaluate(kind, runner, args, outs) ==
    IF runner.app.count_params = 0 THEN Stopped("div_by_zero", args, outs)
    ELSE CheckAndRun(kind, runner, args, outs,
                     RowCount(kind, Len(args), runner.app.count_params))

\* ---------------------------------------------------------------- save/load
\* a file: absent, holding a whole byte stream, or cut short by a failed write
NoFile == [status |-> "absent", bytes |-> <<>>]
Corrupt == [status |-> "corrupt", bytes |-> <<>>]
Written(bytes) == [status |-> "written", bytes |-> bytes]

\* Application::save / Application::load: the artifact as a byte stream
AppSave(app) ==
    << BoolToNat(app.config.complex), BoolToNat(app.config.simd),
       BoolToNat(app.config.use_threads), app.count_params, app.count_obs >>

AppLoad(bytes) ==
    [config |-> [complex |-> bytes[1] = 1, simd |-> bytes[2] = 1,
                 use_threads |-> bytes[3] = 1],
     count_params |-> bytes[4], count_obs |-> bytes[5]]

\* Runner::save(file): io is what the file system does
RunnerSave(runner, file, io) ==
    CASE io = "create_fails" -> [outcome |-> "err", file |-> file]
      [] io = "write_fails"  -> [outcome |-> "err", file |-> Corrupt]
      [] io = "ok"           -> [outcome |-> "ok", file |-> Written(AppSave(runner.app))]

\* Runner::load(file)
\* let config = *app.prog.config(); Ok(Self { config, app })
LoadedRunner(app) ==
    [state |-> "Compiled", config |-> app.config, app |-> app]

RunnerLoad(file, io) ==
    IF io = "open_fails" \/ file.status # "written"
    THEN [outcome |-> "err", runner |-> Uninit]
    ELSE [outcome |-> "ok", runner |-> LoadedRunner(AppLoad(file.bytes))]


\* ============================================================ state machine
VARIABLES
    kind,       \* the runner type of this run
    runners,    \* "R": the instance built by compile, "L": the one built by load
    file,       \* the file save writes and load reads
    saved,      \* config, count_params, count_obs of the runner when it saved
    roundtrip,  \* what the last successful load found against what was saved
    args,       \* the caller's args buffer after the last evaluate
    outs,       \* the caller's outs buffer after the last evaluate
    last,       \* the last call made and what it did
    batch,      \* the threaded batch in flight: phase, inputs, shared outs
    workers     \* per worker of the pool, the rows it has completed

vars == <<kind, runners, file, saved, roundtrip, args, outs, last, batch,
          workers>>

threadVars == <<batch, workers>>

WorkerIds == 0..(NumWorkers - 1)
Idle == [phase |-> "idle"]
NoRows == [w \in WorkerIds |-> {}]

Ids == {"R", "L"}

\* Evaluators as in the test programs of bin.rs: x + y^3 and sinh(x + y)
CoeffConst(coeff, v) == IF coeff = "real" THEN v ELSE <<v, 1>>

Evaluators(k) ==
    LET c == CoeffOf(k)
    IN  { MkEvaluator(c, <<IPow, IAdd, IAssign>>,
                      <<CoeffConst(c, 1), CoeffConst(c, 2)>>),
          MkEvaluator(c, <<IAdd, IExternalFun>>, <<CoeffConst(c, 3)>>) }

\* buffers as the tests build them: consecutive values, zeroed outputs
Seeds == {0}

MkElem(k, first) ==
    IF k = "Real" THEN first + 1
    ELSE [u \in 1..ElemWidth(k) |-> first + u]

MkArgs(k, len, seed) ==
    [i \in 1..len |-> MkElem(k, seed + (i - 1) * ElemWidth(k))]

MkOuts(k, len) ==
    [i \in 1..len |-> IF k = "Real" THEN 0 ELSE [u \in 1..ElemWidth(k) |-> 0]]

Fields(r) == [config |-> r.config, count_params |-> r.app.count_params,
              count_obs |-> r.app.count_obs]

Init ==
    /\ kind \in Kinds
    /\ runners = [id \in Ids |-> Uninit]
    /\ file = NoFile
    /\ saved = NoValue
    /\ roundtrip = [done |-> FALSE]
    /\ args = <<>>
    /\ outs = <<>>
    /\ last = [op |-> "none"]
    /\ batch = Idle
    /\ workers = NoRows

Compiled(r, config, failAt, codegenOk) ==
    /\ runners' = [runners EXCEPT !["R"] = r.runner]
    /\ last' = [op |-> "compile", who |-> "R", outcome |-> r.outcome,
                input |-> config, passed |-> r.passed, calls |-> r.calls,
                appendFailed |-> failAt # 0, codegenOk |-> codegenOk]

Compile ==
    /\ runners["R"].state = "Uninitialized"
    /\ \E ev \in Evaluators(kind), config \in Configs, codegenOk \in BOOLEAN,
          cp \in 0..MaxCount, co \in 0..MaxCount :
         \E failAt \in 0..(Len(ev.constants) + Len(ev.instructions)) :
            Compiled(RunnerCompile(kind, ev, config, failAt, codegenOk, cp, co),
                     config, failAt, codegenOk)
    /\ UNCHANGED <<kind, file, saved, roundtrip, args, outs, threadVars>>

Evaluated(id, a, o, r) ==
    /\ args' = r.args
    /\ outs' = r.outs
    /\ last' = [op |-> "evaluate", who |-> id, outcome |-> r.outcome,
                panic |-> r.panic, invoked |-> r.invoked, n |-> r.n,
                argsIn |-> a, outsIn |-> o]

EvaluateCall(id, a, o) ==
    Evaluated(id, a, o, RunnerEvaluate(kind, runners[id], a, o))

Evaluate ==
    \E id \in Ids :
      /\ runners[id].state = "Compiled"
      /\ \E la \in 0..MaxArgs, lo \in 0..MaxOuts, seed \in Seeds :
           EvaluateCall(id, MkArgs(kind, la, seed), MkOuts(kind, lo))
      /\ UNCHANGED <<kind, runners, file, saved, roundtrip, threadVars>>

Saved(id, r) ==
    /\ file' = r.file
    /\ saved' = IF r.outcome = "ok" THEN Fields(runners[id]) ELSE saved
    /\ last' = [op |-> "save", who |-> id, outcome |-> r.outcome]

Save ==
    \E id \in Ids :
      /\ runners[id].state = "Compiled"
      /\ \E io \in {"ok", "create_fails", "write_fails"} :
           Saved(id, RunnerSave(runners[id], file, io))
      /\ UNCHANGED <<kind, runners, roundtrip, args, outs, threadVars>>

Loaded(r) ==
    /\ runners' = [runners EXCEPT !["L"] = r.runner]
    /\ roundtrip' = IF r.outcome = "ok"
                    THEN [done |-> TRUE, saved |-> saved,
                          loaded |-> Fields(r.runner)]
                    ELSE roundtrip
    /\ last' = [op |-> "load", who |-> "L", outcome |-> r.outcome]

Load ==
    /\ runners["L"].state = "Uninitialized"
    /\ \E io \in {"ok", "open_fails"} : Loaded(RunnerLoad(file, io))
    /\ UNCHANGED <<kind, file, saved, args, outs, threadVars>>

Next == Compile \/ Evaluate \/ Save \/ Load

Spec == Init /\ [][Next]_vars


\* ------------------------------------------------- translate on its own
\* translate applied to every constant pool and instruction stream within
\* the bounds, with every position at which the builder may reject a call.
TranslateConfig == [complex |-> FALSE, simd |-> FALSE, use_threads |-> FALSE]

InitTranslate ==
    /\ kind = "Real"
    /\ runners = [id \in Ids |-> Uninit]
    /\ file = NoFile
    /\ saved = NoValue
    /\ roundtrip = [done |-> FALSE]
    /\ args = <<>>
    /\ outs = <<>>
    /\ batch = Idle
    /\ workers = NoRows
    /\ \E instrs \in SeqsUpTo(Instructions, MaxInstr),
          consts \in SeqsUpTo(ComplexVals, MaxConst),
          failAt \in 0..(MaxConst + MaxInstr) :
         last = [op |-> "input", instructions |-> instrs,
                 constants |-> consts, failAt |-> failAt]

Translated(r) ==
    last' = [op |-> "translate", instructions |-> last.instructions,
             constants |-> last.constants, failAt |-> last.failAt,
             ok |-> r.ok, calls |-> r.calls,
             items |-> IF r.ok THEN r.translator.items ELSE <<>>]

Translate ==
    /\ last.op = "input"
    /\ Translated(translate(last.instructions, last.constants,
                            TranslateConfig, last.failAt))
    /\ UNCHANGED <<kind, runners, file, saved, roundtrip, args, outs, threadVars>>

NextTranslate == Translate

SpecTranslate == InitTranslate /\ [][NextTranslate]_vars

\* ------------------------------------------------ slot_list on its own
\* slot_list applied to every list of symbolica slots within the bounds.
Slots == SlotTags \X (0..MaxIndex)

InitSlots ==
    /\ kind = "Real"
    /\ runners = [id \in Ids |-> Uninit]
    /\ file = NoFile
    /\ saved = NoValue
    /\ roundtrip = [done |-> FALSE]
    /\ args = <<>>
    /\ outs = <<>>
    /\ batch = Idle
    /\ workers = NoRows
    /\ \E v \in SeqsUpTo(Slots, MaxSlots) : last = [op |-> "input", slots |-> v]

MapSlots ==
    /\ last.op = "input"
    /\ last' = [op |-> "slot_list", slots |-> last.slots,
                mapped |-> slot_list(last.slots)]
    /\ UNCHANGED <<kind, runners, file, saved, roundtrip, args, outs, threadVars>>

NextSlots == MapSlots

SpecSlots == InitSlots /\ [][NextSlots]_vars

\* ------------------------------------- flatten_vec / flatten_vec_mut alone
\* The element types the runners flatten: Complex<f64>, f64x2, Complex<f64x2>.
FlattenedKinds == Kinds \ {"Real"}

\* the value stored through the flat view, unlike any value of the buffers
Stored == {-1}

InitFlatten ==
    /\ kind \in FlattenedKinds
    /\ runners = [id \in Ids |-> Uninit]
    /\ file = NoFile
    /\ saved = NoValue
    /\ roundtrip = [done |-> FALSE]
    /\ \E la \in 0..MaxArgs, lo \in 0..MaxOuts, seed \in {0, 10} :
         /\ args = MkArgs(kind, la, seed)
         /\ outs = MkArgs(kind, lo, seed + 20)
    /\ last = [op |-> "input"]
    /\ batch = Idle
    /\ workers = NoRows

\* let args = flatten_vec(args);
FlattenRead ==
    /\ last.op = "input"
    /\ last' = [op |-> "flatten_vec", flat |-> flatten_vec(args, ElemWidth(kind))]
    /\ UNCHANGED <<kind, runners, file, saved, roundtrip, args, outs, threadVars>>

\* outs[at] = x through the view q, then the typed buffer as it now stands
StoredThrough(q, at, x, w, before) ==
    /\ outs' = flatten_vec_mut_writeback([q EXCEPT ![at + 1] = x], w)
    /\ last' = [op |-> "flatten_vec_mut", at |-> at, value |-> x,
                flatLen |-> Len(q), before |-> before]

\* let outs = flatten_vec_mut(outs); and one store through it
FlattenWrite ==
    /\ last.op \in {"input", "flatten_vec"}
    /\ \E at \in 0..(Len(outs) * ElemWidth(kind) - 1), x \in Stored :
         StoredThrough(flatten_vec(outs, ElemWidth(kind)), at, x,
                       ElemWidth(kind), outs)
    /\ UNCHANGED <<kind, runners, file, saved, roundtrip, args, threadVars>>

NextFlatten == FlattenRead \/ FlattenWrite

SpecFlatten == InitFlatten /\ [][NextFlatten]_vars

\* --------------------------------------------- the threaded batch, stepwise
\* One evaluate call on a compiled runner.  When it dispatches to the
\* threaded primitive the pool's workers each take their chunk and evaluate
\* its rows one at a time, in any interleaving, writing the shared outs; the
\* call returns when every worker has finished its chunk.
CompiledRunner(k, ut, cp, co) ==
    LoadedRunner([config |-> ForceConfig(k, [complex |-> FALSE, simd |-> FALSE,
                                             use_threads |-> ut]),
                  count_params |-> cp, count_obs |-> co])

InitThreads ==
    /\ kind \in Kinds
    /\ \E ut \in BOOLEAN, cp \in 1..MaxCount, co \in 1..MaxCount :
         runners = [id \in Ids |-> IF id = "R"
                                   THEN CompiledRunner(kind, ut, cp, co)
                                   ELSE Uninit]
    /\ file = NoFile
    /\ saved = NoValue
    /\ roundtrip = [done |-> FALSE]
    /\ args = <<>>
    /\ outs = <<>>
    /\ last = [op |-> "none"]
    /\ batch = Idle
    /\ workers = NoRows

\* evaluate up to its dispatch; a non-threaded primitive runs to its end
Forked(a, o, n, prim) ==
    /\ args' = a
    /\ outs' = IF Threaded(prim) THEN o
               ELSE TypedView(kind,
                       RunPrimitive(prim, runners["R"].app, FlatView(kind, a),
                                    FlatView(kind, o), n))
    /\ batch' = [phase |-> IF Threaded(prim) THEN "running" ELSE "returned",
                 prim |-> prim, n |-> n, argsIn |-> a, outsIn |-> o]

ThreadsCall ==
    /\ batch.phase = "idle"
    /\ \E la \in 0..MaxArgs, lo \in 0..MaxOuts, seed \in Seeds :
         /\ CapacityCheck(kind, lo, runners["R"].app.count_obs,
                          RowCount(kind, la, runners["R"].app.count_params))
         /\ Forked(MkArgs(kind, la, seed), MkOuts(kind, lo),
                   RowCount(kind, la, runners["R"].app.count_params),
                   Dispatch(kind, runners["R"].config))
    /\ UNCHANGED <<kind, runners, file, saved, roundtrip, last, workers>>

LeastOf(S) == CHOOSE i \in S : \A j \in S : i <= j

\* worker w evaluates the next row of its chunk, writing the caller's outs
\* through the flat view
RowDone(w, i) ==
    /\ outs' = TypedView(kind,
                  EvaluateRows(runners["R"].app, FlatView(kind, args),
                               FlatView(kind, outs), {i},
                               UnitWidth(batch.prim)))
    /\ workers' = [workers EXCEPT ![w] = @ \cup {i}]

WorkerStep ==
    /\ batch.phase = "running"
    /\ \E w \in WorkerIds :
         /\ Chunk(batch.n, w) \ workers[w] # {}
         /\ RowDone(w, LeastOf(Chunk(batch.n, w) \ workers[w]))
    /\ UNCHANGED <<kind, runners, file, saved, roundtrip, args, last, batch>>

\* the join: evaluate returns once every chunk is complete
Join ==
    /\ batch.phase = "running"
    /\ \A w \in WorkerIds : workers[w] = Chunk(batch.n, w)
    /\ batch' = [batch EXCEPT !.phase = "returned"]
    /\ UNCHANGED <<kind, runners, file, saved, roundtrip, args, outs, last,
                   workers>>

NextThreads == ThreadsCall \/ WorkerStep \/ Join

SpecThreads == InitThreads /\ [][NextThreads]_vars

\* ------------------------------------------------- scattered vector runner
\* CompiledScatteredSimdRealRunner / CompiledScatteredSimdComplexRunner: row-major
\* scalar buffers in and out, the vector kernel inside.  Rows are gathered
\* LaneWidth at a time into lane-packed blocks (the last block padded), the
\* vector kernel evaluates the blocks, and the lanes are scattered back.
Blocks(n) == (n + LaneWidth - 1) \div LaneWidth

\* lane l of unit p of block b holds parameter p of row b * LaneWidth + l
Gather(fargs, n, cp) ==
    [g \in 1..(Blocks(n) * cp * LaneWidth) |->
        IF (((g - 1) \div LaneWidth) \div cp) * LaneWidth
               + ((g - 1) % LaneWidth) < n
        THEN At(fargs,
                ((((g - 1) \div LaneWidth) \div cp) * LaneWidth
                    + ((g - 1) % LaneWidth)) * cp
                + (((g - 1) \div LaneWidth) % cp) + 1)
        ELSE 0]

\* only the full blocks written back
ScatteredRows_fullBlocksOnly(n) == 0..((n \div LaneWidth) * LaneWidth - 1)

\* rows whose lanes are written back
ScatteredRows(n) == 0..(n - 1)

\* output k of row r is lane r % LaneWidth of unit k of block r \div LaneWidth
Scatter(vouts, fouts, n, co) ==
    [j \in 1..Len(fouts) |->
        IF ((j - 1) \div co) \in ScatteredRows(n)
        THEN At(vouts,
                ((((j - 1) \div co) \div LaneWidth) * co + ((j - 1) % co))
                    * LaneWidth
                + (((j - 1) \div co) % LaneWidth) + 1)
        ELSE fouts[j]]

ZeroBuffer(len) == [j \in 1..len |-> 0]

VectorKernel(runner, gathered, n) ==
    evaluate_matrix_without_threads(
        runner.app, gathered,
        ZeroBuffer(Blocks(n) * runner.app.count_obs * LaneWidth),
        Blocks(n), LaneWidth)

GatherRunScatter(k, runner, a, o, n) ==
    [outcome |-> "ok", n |-> n, args |-> a,
     outs |-> TypedView(k,
                 Scatter(VectorKernel(runner,
                                      Gather(FlatView(k, a), n,
                                             runner.app.count_params), n),
                         FlatView(k, o), n, runner.app.count_obs))]

\* evaluate of the scattered runner of scalar element kind k (Real or Complex)
ScatteredEvaluate(k, runner, a, o) ==
    IF ~CapacityCheck(k, Len(o), runner.app.count_obs,
                      RowCount(k, Len(a), runner.app.count_params))
    THEN [outcome |-> "panic", n |-> 0, args |-> a, outs |-> o]
    ELSE GatherRunScatter(k, runner, a, o,
                          RowCount(k, Len(a), runner.app.count_params))

ScalarKinds == {"Real", "Complex"}

\* counts are in real slots: a complex runner's are even
CountsOf(k) == { c \in 1..MaxCount : c % RowMultiplier(k) = 0 }

InitScatter ==
    /\ kind \in ScalarKinds
    /\ \E ut \in BOOLEAN, cp \in CountsOf(kind), co \in CountsOf(kind) :
         runners = [id \in Ids |-> IF id = "R"
                                   THEN CompiledRunner(kind, ut, cp, co)
                                   ELSE Uninit]
    /\ file = NoFile
    /\ saved = NoValue
    /\ roundtrip = [done |-> FALSE]
    /\ args = <<>>
    /\ outs = <<>>
    /\ last = [op |-> "none"]
    /\ batch = Idle
    /\ workers = NoRows

Scattered(a, o, r) ==
    /\ args' = r.args
    /\ outs' = r.outs
    /\ last' = [op |-> "scattered_evaluate", outcome |-> r.outcome, n |-> r.n,
                argsIn |-> a, outsIn |-> o]

ScatteredCall(a, o) == Scattered(a, o, ScatteredEvaluate(kind, runners["R"], a, o))

ScatterEvaluate ==
    /\ \E la \in 0..(MaxArgs + 1), lo \in 0..(MaxOuts + 1), seed \in Seeds :
         ScatteredCall(MkArgs(kind, la, seed), MkOuts(kind, lo))
    /\ UNCHANGED <<kind, runners, file, saved, roundtrip, batch, workers>>

NextScatter == ScatterEvaluate

SpecScatter == InitScatter /\ [][NextScatter]_vars

\* ================================================================== claims
ImpliedComplex(k) == k \in {"Complex", "SimdComplex"}
ImpliedSimd(k)    == k \in {"SimdReal", "SimdComplex"}
ClaimMultiplier(k) == IF ImpliedComplex(k) THEN 2 ELSE 1

LastRunner == runners[last.who]
LastLogicalArgs == ClaimMultiplier(kind) * Len(last.argsIn)
LastLogicalOuts == ClaimMultiplier(kind) * Len(last.outsIn)

\* C1: evaluate invokes the threaded batch primitive exactly when
\* config.use_threads() is true, and the non-threaded one exactly when it is
\* false.
C1_DispatchFollowsUseThreads ==
    (last.op = "evaluate" /\ last.outcome = "ok") =>
        (last.invoked \in {"evaluate_matrix_with_threads",
                           "evaluate_matrix_with_threads_simd"}
            <=> LastRunner.config.use_threads)

\* C2: when a builder-append call fails, compile returns an error value to its
\* caller (no panic) and no artifact.
C2_AppendFailureIsReturned ==
    (last.op = "compile" /\ last.appendFailed) =>
        (last.outcome = "err" /\ runners["R"].state = "Failed")

\* C4: the config each runner's compile passes to the translator, and the one
\* it stores, carry the (complex, simd) values implied by the runner type,
\* whatever the caller passed.
C4_ForcedConfig ==
    /\ last.op = "compile" =>
          /\ last.passed.complex = ImpliedComplex(kind)
          /\ last.passed.simd = ImpliedSimd(kind)
    /\ runners["R"].state = "Compiled" =>
          /\ runners["R"].config.complex = ImpliedComplex(kind)
          /\ runners["R"].config.simd = ImpliedSimd(kind)
          /\ runners["R"].app.config.complex = ImpliedComplex(kind)
          /\ runners["R"].app.config.simd = ImpliedSimd(kind)

C4_Witness ==
    /\ kind = "SimdComplex"
    /\ last.op = "compile"
    /\ last.outcome = "ok"
    /\ ~last.input.complex
    /\ ~last.input.simd
    /\ runners["R"].state = "Compiled"

\* C5: with n = floor(m * args.len() / count_params), a batch primitive is
\* invoked only if m * outs.len() >= n * count_obs; when outs is smaller the
\* call fails its assertion with no primitive invoked and outs unwritten.
C5_CapacityGuard ==
    last.op = "evaluate" =>
        /\ last.invoked # "none" =>
              /\ last.n = LastLogicalArgs \div LastRunner.app.count_params
              /\ LastLogicalOuts >= last.n * LastRunner.app.count_obs
        /\ ( /\ LastRunner.app.count_params > 0
             /\ LastRunner.app.count_obs > 0
             /\ LastLogicalOuts <
                  (LastLogicalArgs \div LastRunner.app.count_params)
                     * LastRunner.app.count_obs )
           => /\ last.outcome = "panic"
              /\ last.panic = "assertion"
              /\ last.invoked = "none"
              /\ outs = last.outsIn

\* outs holds whole rows short of n, and more elements than n: the floor
\* division by count_obs decides
C5_Witness ==
    /\ last.op = "evaluate"
    /\ last.panic = "assertion"
    /\ LastRunner.app.count_obs = 2
    /\ LastLogicalOuts > LastLogicalArgs \div LastRunner.app.count_params
    /\ LastLogicalOuts > 0

\* C6: a buffer-length mismatch is fatal to evaluate: when the length of args
\* (in real-slot units) is not a whole multiple of count_params, evaluate
\* aborts instead of evaluating the whole rows and ignoring the rest.
C6_NoSilentTruncation ==
    ( /\ last.op = "evaluate"
      /\ LastRunner.app.count_params > 0
      /\ LastLogicalArgs % LastRunner.app.count_params # 0 )
    => last.outcome = "panic"

\* C7: a successful save followed by a successful load yields a runner whose
\* config, count_params and count_obs are those the saving runner held.
C7_RoundTrip ==
    roundtrip.done => roundtrip.loaded = roundtrip.saved

C7_Witness ==
    /\ roundtrip.done
    /\ runners["L"].state = "Compiled"
    /\ roundtrip.saved.config.use_threads
    /\ roundtrip.saved.count_params = 2
    /\ last.op = "load"
    /\ last.outcome = "ok"

\* C10: a runner goes from Uninitialized to Compiled (compile succeeded) or to
\* Failed (compile error), load builds one directly in Compiled; evaluate and
\* save leave a Compiled runner as it is, and evaluate leaves args as it is.
C10_LifecycleStep ==
    /\ \A id \in Ids :
          /\ runners[id].state = "Uninitialized" =>
                runners'[id].state \in {"Uninitialized", "Compiled", "Failed"}
          /\ runners[id].state = "Compiled" => runners'[id] = runners[id]
    /\ last'.op = "compile" =>
          \/ last'.outcome = "ok" /\ runners'["R"].state = "Compiled"
          \/ last'.outcome = "err" /\ runners'["R"].state = "Failed"
    /\ (last'.op = "load" /\ last'.outcome = "ok") =>
          runners'["L"].state = "Compiled"
    /\ last'.op = "evaluate" => args' = last'.argsIn

C10_Lifecycle == [][C10_LifecycleStep]_vars


\* the append call that belongs to each opcode
ExpectedAppend(op) ==
    CASE op = "Add"         -> "append_add"
      [] op = "Mul"         -> "append_mul"
      [] op = "Pow"         -> "append_pow"
      [] op = "Powf"        -> "append_powf"
      [] op = "Assign"      -> "append_assign"
      [] op = "Fun"         -> "append_fun"
      [] op = "Join"        -> "append_join"
      [] op = "Label"       -> "append_label"
      [] op = "IfElse"      -> "append_if_else"
      [] op = "Goto"        -> "append_goto"
      [] op = "ExternalFun" -> "append_external_fun"

NoAppendFails ==
    last.failAt = 0 \/ last.failAt > Len(last.constants) + Len(last.instructions)

\* C3: when no append fails, translate calls append-constant once per pool
\* element in pool order, then one append of the matching kind per instruction
\* in stream order: |C| + |I| calls, no instruction call before a constant call.
C3_CallSequence ==
    (last.op = "translate" /\ NoAppendFails) =>
        /\ Len(last.calls) = Len(last.constants) + Len(last.instructions)
        /\ \A k \in 1..Len(last.constants) :
              last.calls[k] = [call |-> "append_constant",
                               z |-> last.constants[k]]
        /\ \A k \in 1..Len(last.instructions) :
              last.calls[Len(last.constants) + k].call =
                  ExpectedAppend(last.instructions[k].op)

C3_Witness ==
    /\ last.op = "translate"
    /\ NoAppendFails
    /\ Len(last.constants) = 2
    /\ last.constants[1] # last.constants[2]
    /\ Len(last.instructions) = 2
    /\ last.instructions[1].op # last.instructions[2].op
    /\ Len(last.calls) = 4


\* what evaluate gives on the same buffers with use_threads set to ut
EvaluateWith(ut) ==
    RunnerEvaluate(kind, [runners["R"] EXCEPT !.config.use_threads = ut],
                   batch.argsIn, batch.outsIn).outs

\* C8: evaluate gives the same outs with use_threads true and false, under
\* any interleaving of the worker chunks: workers write disjoint rows, and
\* evaluate returns only after every chunk is complete.
C8_ThreadingTransparent ==
    /\ batch.phase = "returned" =>
          /\ outs = EvaluateWith(TRUE)
          /\ outs = EvaluateWith(FALSE)
          /\ Threaded(batch.prim) =>
                UNION { workers[w] : w \in WorkerIds } = 0..(batch.n - 1)
    /\ \A w1, w2 \in WorkerIds :
          w1 # w2 => workers[w1] \cap workers[w2] = {}

C8_Witness ==
    /\ batch.phase = "returned"
    /\ Threaded(batch.prim)
    /\ batch.n = 3
    /\ \A w \in WorkerIds : workers[w] # {}
    /\ outs # batch.outsIn


\* row i of a row-major buffer of elements, rows of len elements each
RowOf(buf, i, len) == SubSeq(buf, i * len + 1, (i + 1) * len)

ParamElems == runners["R"].app.count_params \div ClaimMultiplier(kind)
ObsElems   == runners["R"].app.count_obs \div ClaimMultiplier(kind)

\* the scalar runner invoked on row i alone
ScalarOnRow(i) ==
    RunnerEvaluate(kind, runners["R"], RowOf(last.argsIn, i, ParamElems),
                   RowOf(last.outsIn, i, ObsElems)).outs

\* C9: the scattered vector runner takes row-major scalar input and, for every
\* row count (multiples of the lane width or not), writes row-major outputs
\* equal, row for row, to the scalar runner invoked on each row alone.
C9_ScatteredEqualsScalar ==
    (last.op = "scattered_evaluate" /\ last.outcome = "ok") =>
        /\ last.n = LastLogicalArgs \div runners["R"].app.count_params
        /\ \A i \in 0..(last.n - 1) :
              RowOf(outs, i, ObsElems) = ScalarOnRow(i)
        /\ SubSeq(outs, last.n * ObsElems + 1, Len(outs)) =
              SubSeq(last.outsIn, last.n * ObsElems + 1, Len(outs))

C9_Witness ==
    /\ last.op = "scattered_evaluate"
    /\ last.outcome = "ok"
    /\ last.n = 3
    /\ runners["R"].app.count_params = 2
    /\ outs # last.outsIn

\* the calls translate would make if every append were accepted
AllCalls ==
    [k \in 1..(Len(last.constants) + Len(last.instructions)) |->
        IF k <= Len(last.constants)
        THEN ConstantCall(last.constants[k])
        ELSE InstructionCall(last.instructions[k - Len(last.constants)])]

\* C11: when the k-th append call (constants first, then instructions) is the
\* first to fail, translate makes exactly the first k calls and none for any
\* later constant or instruction, and returns the error, not a builder.
C11_StopsAtFirstFailure ==
    (last.op = "translate" /\ ~NoAppendFails) =>
        /\ Len(last.calls) = last.failAt
        /\ \A k \in 1..last.failAt : last.calls[k] = AllCalls[k]
        /\ ~last.ok
        /\ last.items = <<>>

C11_Witness ==
    /\ last.op = "translate"
    /\ last.failAt = 1
    /\ Len(last.constants) = 2
    /\ Len(last.instructions) = 2
    /\ Len(last.calls) = 1
    /\ ~last.ok

\* C12: the slot mapping is defined for every slot and keeps its class tag
\* (Param/Out/Const/Temp) and its index; mapping a list gives a list of the
\* same length whose i-th element is the mapping of the i-th input slot.
C12_SlotMapping ==
    last.op = "slot_list" =>
        /\ Len(last.mapped) = Len(last.slots)
        /\ \A i \in 1..Len(last.slots) :
              /\ last.mapped[i] = slot(last.slots[i])
              /\ last.mapped[i].class \in SlotTags
              /\ last.mapped[i].class = last.slots[i][1]
              /\ last.mapped[i].index = last.slots[i][2]

C12_Witness ==
    /\ last.op = "slot_list"
    /\ last.slots = << <<"Out", 2>>, <<"Temp", 1>> >>
    /\ last.mapped = << [class |-> "Out", index |-> 2],
                       [class |-> "Temp", index |-> 1] >>

\* C13: flattening k elements of w scalar units each gives exactly k*w
\* scalars with unit j of element i at flat index i*w + j, and a store at flat
\* index i*w + j through the mutable flattening is a store to unit j of
\* element i of the original buffer and to nothing else.
C13_FlattenLayout ==
    /\ last.op = "flatten_vec" =>
          /\ Len(last.flat) = Len(args) * ElemWidth(kind)
          /\ \A i \in 0..(Len(args) - 1), j \in 0..(ElemWidth(kind) - 1) :
                last.flat[i * ElemWidth(kind) + j + 1] = args[i + 1][j + 1]
    /\ last.op = "flatten_vec_mut" =>
          /\ last.flatLen = Len(last.before) * ElemWidth(kind)
          /\ Len(outs) = Len(last.before)
          /\ \A i \in 0..(Len(outs) - 1), j \in 0..(ElemWidth(kind) - 1) :
                outs[i + 1][j + 1] =
                    IF i * ElemWidth(kind) + j = last.at
                    THEN last.value
                    ELSE last.before[i + 1][j + 1]

C13_Witness ==
    /\ last.op = "flatten_vec_mut"
    /\ kind = "SimdComplex"
    /\ Len(outs) = 2
    /\ last.at = 5
    /\ outs[2][2] = last.value
    /\ last.before[2][2] # last.value
    /\ outs[1] = last.before[1]

====
